---- MODULE Spec2Model ----
(***************************************************************************)
(* CountriesService (countries.service.ts): a cache-aside fetch of the     *)
(* REST Countries data set and the five aggregation operations computed    *)
(* over the fetched array.  Requests are asynchronous callers whose        *)
(* continuations interleave at every await.                                *)
(***************************************************************************)
EXTENDS Integers, Sequences, FiniteSets, TLC

\* ------------------------------------------------------------------ bounds
MaxCalls == 2        \* requests served in one behaviour
MaxLen == 3          \* longest upstream array in AggSpec
MaxPage == 4         \* largest page number requested
MaxLimit == 2        \* largest page size requested

\* ------------------------------------------------------- JavaScript values
\* A JSON value as typeof sees it: s is the text of a string, n the value
\* of a number; the field that does not apply is empty / 0.
Str(s) == [t |-> "string", s |-> s, n |-> 0]
Num(n) == [t |-> "number", s |-> <<>>, n |-> n]
Undefined == [t |-> "undefined", s |-> <<>>, n |-> 0]

\* if (v): undefined, "" and 0 are falsy.
Truthy(v) ==
  \/ v.t = "string" /\ v.s # <<>>
  \/ v.t = "number" /\ v.n # 0

\* a >= b and a > b, a < b on JS values: a comparison with undefined is false.
JsGe(a, b) == a.t = "number" /\ b.t = "number" /\ a.n >= b.n
JsGt(a, b) == a.t = "number" /\ b.t = "number" /\ a.n > b.n
JsLt(a, b) == a.t = "number" /\ b.t = "number" /\ a.n < b.n

\* Strings are sequences of character codes ("A" = 65 .. "Z" = 90,
\* "a" = 97 .. "z" = 122).
IsUpper(ch) == ch \in 65..90
ToLowerCase(s) == [i \in DOMAIN s |-> IF IsUpper(s[i]) THEN s[i] + 32 ELSE s[i]]

RECURSIVE LexCompare(_, _)
LexCompare(a, b) ==
  IF a = <<>> /\ b = <<>> THEN 0
  ELSE IF a = <<>> THEN -1
  ELSE IF b = <<>> THEN 1
  ELSE IF Head(a) < Head(b) THEN -1
  ELSE IF Head(a) > Head(b) THEN 1
  ELSE LexCompare(Tail(a), Tail(b))

\* The first position where the case of two equal-letter strings differs
\* decides: the lower-case letter sorts first.
RECURSIVE CaseCompare(_, _)
CaseCompare(a, b) ==
  IF a = <<>> \/ b = <<>> THEN 0
  ELSE IF Head(a) = Head(b) THEN CaseCompare(Tail(a), Tail(b))
  ELSE IF IsUpper(Head(b)) THEN -1 ELSE 1

\* a.localeCompare(b): letters first, ignoring case; case breaks ties.
LocaleCompare(a, b) ==
  LET primary == LexCompare(ToLowerCase(a), ToLowerCase(b))
  IN IF primary # 0 THEN primary ELSE CaseCompare(a, b)

\* ---------------------------------------------------------------- strings
s_fr == <<102, 114>>
s_FR == <<70, 82>>
s_De == <<68, 101>>
s_in == <<105, 110>>
s_eu == <<101, 117>>
s_EU == <<69, 85>>
s_as == <<97, 115>>
s_French == <<70>>
s_German == <<71>>
s_Hindi == <<72>>

\* -------------------------------------------------------------- countries
\* An element of the upstream array.  t = "null" is a JSON null; languages
\* is the code -> display name object as its entries in insertion order,
\* hasLanguages = FALSE when the field is absent.
Country(name, region, population, area, hasLanguages, languages, borders) ==
  [t |-> "object", name |-> name, region |-> region, population |-> population,
   area |-> area, hasLanguages |-> hasLanguages, languages |-> languages,
   borders |-> borders, latlng |-> borders]

Lang(code, name) == [code |-> code, name |-> name]

France == Country(Str(s_fr), Str(s_EU), Num(2), Num(5), TRUE,
                  <<Lang(1, s_French)>>, 1)
Germany == Country(Str(s_De), Str(s_eu), Num(3), Num(5), TRUE,
                   <<Lang(2, s_German), Lang(3, s_German)>>, 2)
India == Country(Str(s_in), Str(s_as), Num(2), Undefined, TRUE,
                 <<Lang(4, s_Hindi), Lang(5, <<>>), Lang(6, s_French)>>, 3)
Reunion == Country(Str(s_FR), Str(s_as), Num(0), Num(1), FALSE, <<>>, 4)

JsonNull == [France EXCEPT !.t = "null"]
NoName == [France EXCEPT !.name = Undefined]
NumericRegion == [Germany EXCEPT !.region = Num(7)]
TextPopulation == [India EXCEPT !.population = Str(s_in)]

ValidCountries == {France, Germany, India, Reunion}

\* An HTTP response body: an array of elements, or something else.
Array(items) == [isArray |-> TRUE, items |-> items]
NotAnArray == [isArray |-> FALSE, items |-> <<>>]

RECURSIVE SeqsUpTo(_, _)
SeqsUpTo(S, n) ==
  IF n = 0 THEN {<<>>}
  ELSE LET shorter == SeqsUpTo(S, n - 1)
       IN shorter \cup {Append(s, x) : s \in {q \in shorter : Len(q) = n - 1}, x \in S}

\* -------------------------------------------------- CountriesService (pure)
\* isValidCountryDto: country && typeof name?.common, region, population.
\* (faulty variant: the population check left out)
IsValidIgnoringPopulation(country) ==
  /\ country.t # "null"
  /\ country.name.t = "string"
  /\ country.region.t = "string"
isValidCountryDto(country) ==
  /\ country.t # "null"
  /\ country.name.t = "string"
  /\ country.region.t = "string"
  /\ country.population.t = "number"

\* Array.isArray(countries) && countries.every(this.isValidCountryDto)
\* (faulty variant: some instead of every)
SomeElementValid(data) ==
  data.isArray /\ \E i \in DOMAIN data.items : isValidCountryDto(data.items[i])
PayloadAccepted(data) ==
  data.isArray /\ \A i \in DOMAIN data.items : isValidCountryDto(data.items[i])

\* formatCountryData: the public projection of one country.
formatCountryData(c) ==
  [commonName |-> c.name.s, population |-> c.population.n,
   hasLanguages |-> c.hasLanguages, languages |-> c.languages,
   borders |-> c.borders, latlng |-> c.latlng]

FormatAll(arr) == [i \in DOMAIN arr |-> formatCountryData(arr[i])]

\* Array.prototype.filter
Filter(arr, Keep(_)) == SelectSeq(arr, Keep)

\* Array.prototype.sort with (a, b) => a.name.common.localeCompare(b.name.common):
\* a stable sort, here by insertion after every element that does not
\* compare greater.
RECURSIVE InsertByName(_, _)
InsertByName(sorted, c) ==
  IF sorted = <<>> THEN <<c>>
  ELSE IF LocaleCompare(Head(sorted).name.s, c.name.s) <= 0
       THEN <<Head(sorted)>> \o InsertByName(Tail(sorted), c)
       ELSE <<c>> \o sorted

RECURSIVE SortFrom(_, _)
SortFrom(sorted, rest) ==
  IF rest = <<>> THEN sorted
  ELSE SortFrom(InsertByName(sorted, Head(rest)), Tail(rest))

\* (faulty variant: no sort)
Unsorted(arr) == arr
SortByName(arr) == SortFrom(<<>>, arr)

\* Array.prototype.slice(start, end) for 0 <= start <= end.
Slice(arr, start, end) ==
  LET last == IF end < Len(arr) THEN end ELSE Len(arr)
  IN IF start >= last THEN <<>> ELSE SubSeq(arr, start + 1, last)

\* A search query: region and minPopulation are JS values (Undefined when
\* the parameter is absent), page and limit positive integers.
Query(region, minPopulation, page, limit) ==
  [region |-> region, minPopulation |-> minPopulation, page |-> page, limit |-> limit]

RegionMatches(country, q) == ToLowerCase(country.region.s) = ToLowerCase(q.region.s)
PopulationMatches(country, q) == JsGe(country.population, q.minPopulation)

\* getCountries, lines 77-88: the two optional filters.
ApplyFilters(arr, q) ==
  LET KeepRegion(c) == RegionMatches(c, q)
      KeepPopulation(c) == PopulationMatches(c, q)
      byRegion == IF Truthy(q.region) THEN Filter(arr, KeepRegion) ELSE arr
  IN IF Truthy(q.minPopulation) THEN Filter(byRegion, KeepPopulation) ELSE byRegion

\* TRUE when filteredCountries is still the array fetchCountries returned,
\* so that the sort of line 90 sorts that array itself.
SortsInput(q) == ~Truthy(q.region) /\ ~Truthy(q.minPopulation)

\* getCountries, lines 94-96.
\* (faulty variant: pages counted from 0)
PageStartFromZero(q) == q.page * q.limit
PageStart(q) == (q.page - 1) * q.limit
PageEnd(q) == PageStart(q) + q.limit

\* getCountries: the response for the array fetchCountries returned.
getCountries(arr, q) ==
  LET filteredCountries == SortByName(ApplyFilters(arr, q))
      paginatedCountries == Slice(filteredCountries, PageStart(q), PageEnd(q))
  IN [status |-> "ok", total |-> Len(filteredCountries), page |-> q.page,
      limit |-> q.limit, data |-> FormatAll(paginatedCountries)]

InternalServerError(message) ==
  [status |-> "error", error |-> "InternalServerErrorException", message |-> message]
NotFound ==
  [status |-> "error", error |-> "NotFoundException", message |-> "Not Found"]
TypeError ==
  [status |-> "error", error |-> "TypeError", message |-> "Reduce of empty array"]

\* getCountryByName: countries.find(...) on lower-cased names.
\* (faulty variant: no toLowerCase)
NameEqualsExactly(country, name) == country.name.s = name
NameEquals(country, name) == ToLowerCase(country.name.s) = ToLowerCase(name)

\* Array.prototype.find: <<the first element passing the test>>, or <<>>.
Find(arr, Test(_)) ==
  LET passing == SelectSeq(arr, Test)
  IN IF passing = <<>> THEN <<>> ELSE <<Head(passing)>>

getCountryByName(arr, name) ==
  LET Test(c) == NameEquals(c, name)
      found == Find(arr, Test)
  IN IF found # <<>>
     THEN [status |-> "ok", country |-> formatCountryData(found[1])]
     ELSE NotFound

\* A Record<string, {countries, total}> as its entries in insertion order.
HasKey(rec, key) == \E i \in DOMAIN rec : rec[i].key = key

\* if (!rec[key]) rec[key] = {countries: [], total: 0};
\* rec[key].countries.push(name); rec[key].total += population
\* (faulty variant: the total is set on creation and never added to)
AccumulateWithoutSum(rec, key, name, population) ==
  IF HasKey(rec, key)
  THEN [i \in DOMAIN rec |->
          IF rec[i].key = key
          THEN [rec[i] EXCEPT !.countries = Append(@, name)]
          ELSE rec[i]]
  ELSE Append(rec, [key |-> key, countries |-> <<name>>, total |-> population])
Accumulate(rec, key, name, population) ==
  LET init == IF HasKey(rec, key) THEN rec
              ELSE Append(rec, [key |-> key, countries |-> <<>>, total |-> 0])
  IN [i \in DOMAIN init |->
        IF init[i].key = key
        THEN [init[i] EXCEPT !.countries = Append(@, name), !.total = @ + population]
        ELSE init[i]]

\* getRegions: countries.forEach over the array, in order.
RECURSIVE RegionsFrom(_, _)
RegionsFrom(regions, rest) ==
  IF rest = <<>> THEN regions
  ELSE LET c == Head(rest)
       IN RegionsFrom(Accumulate(regions, c.region.s, c.name.s, c.population.n),
                      Tail(rest))

getRegions(arr) == [status |-> "ok", regions |-> RegionsFrom(<<>>, arr)]

\* getLanguages: Object.entries(country.languages || {}).filter(name => name)
LanguageEntries(c) ==
  LET Named(e) == e.name # <<>>
  IN IF c.hasLanguages THEN Filter(c.languages, Named) ELSE <<>>

RECURSIVE AddLanguages(_, _, _)
AddLanguages(details, entries, c) ==
  IF entries = <<>> THEN details
  ELSE AddLanguages(Accumulate(details, Head(entries).name, c.name.s, c.population.n),
                    Tail(entries), c)

RECURSIVE LanguagesFrom(_, _)
LanguagesFrom(details, rest) ==
  IF rest = <<>> THEN details
  ELSE LanguagesFrom(AddLanguages(details, LanguageEntries(Head(rest)), Head(rest)),
                     Tail(rest))

LanguageDetails(arr) == LanguagesFrom(<<>>, arr)
getLanguages(arr) == [status |-> "ok", languages |-> LanguageDetails(arr)]

\* Array.prototype.reduce without an initial value, on a non-empty array.
Reduce(arr, Pick(_, _)) ==
  LET acc[i \in 1..Len(arr)] == IF i = 1 THEN arr[1] ELSE Pick(acc[i - 1], arr[i])
  IN acc[Len(arr)]

\* getStatistics, lines 175-180.
LargerArea(prev, current) == IF JsGt(prev.area, current.area) THEN prev ELSE current
\* (faulty variant: `<=` in place of `<`, the earlier of two equal countries
\* is kept)
SmallerOrEqualPopulation(prev, current) ==
  IF JsGt(prev.population, current.population) THEN current ELSE prev
SmallerPopulation(prev, current) ==
  IF JsLt(prev.population, current.population) THEN prev ELSE current

largestCountry(arr) == Reduce(arr, LargerArea)
smallestCountry(arr) == Reduce(arr, SmallerPopulation)

\* getMostSpokenLanguage, lines 195-197, on the entries of getLanguages.
\* (faulty variant: `>=` in place of `>`, the earlier of two equal languages
\* is kept)
MoreOrEqualSpeakers(a, b) == IF a.total >= b.total THEN a ELSE b
MoreSpeakers(a, b) == IF a.total > b.total THEN a ELSE b
mostSpokenLanguage(languages) == Reduce(languages, MoreSpeakers).key

\* ------------------------------------------------------------------ state
VARIABLES
  heap,          \* the arrays the cache has stored, by reference (index)
  cacheRef,      \* cache entry 'countries': a reference into heap, 0 = none
  cacheExpired,  \* the entry's ttl has run out
  upstreamCalls, \* axios.get calls issued so far
  calls,         \* requests that have arrived so far
  pc,            \* per caller: where its request stands
  op,            \* per caller: the operation requested and its arguments
  phase,         \* per caller: 1, or 2 in getStatistics' call of getLanguages
  cachedData,    \* per caller: what cacheManager.get resolved to (0 = undefined)
  response,      \* per caller: the upstream's answer to its axios.get
  countries,     \* per caller: the array fetchCountries returned
  stats,         \* per caller: getStatistics' locals of lines 174-180
  result         \* per caller: the response or the exception of the operation

vars == <<heap, cacheRef, cacheExpired, upstreamCalls, calls, pc, op, phase, cachedData,
          response, countries, stats, result>>

\* Two request handlers run concurrently.
Callers == {1, 2}

NoQuery == Query(Undefined, Undefined, 1, 1)
Request(kind, q, name) == [kind |-> kind, q |-> q, name |-> name]
NoRequest == Request("none", NoQuery, <<>>)

NoResponse == [kind |-> "none", data |-> NotAnArray]
DataResponse(data) == [kind |-> "data", data |-> data]
NetworkError == [kind |-> "networkError", data |-> NotAnArray]
Timeout == [kind |-> "timeout", data |-> NotAnArray]

\* An array a caller holds: a cache object (ref > 0) or its own (ref = 0).
Shared(ref) == [ref |-> ref, arr |-> <<>>]
Own(arr) == [ref |-> 0, arr |-> arr]
NoArray == Own(<<>>)

NoStats == [totalCountries |-> 0, largest |-> <<>>, smallest |-> <<>>]
NoResult == [status |-> "none"]

\* ------------------------------------------------------------ environments
\* Spec: concurrent callers, an upstream that may fail or answer badly.
SpecQueries ==
  {Query(Undefined, Undefined, 1, 1), Query(Str(s_EU), Undefined, 1, 2)}
SpecRequests ==
  {Request("search", q, <<>>) : q \in SpecQueries}
    \cup {Request("byName", NoQuery, s_FR), Request("regions", NoQuery, <<>>),
          Request("languages", NoQuery, <<>>), Request("statistics", NoQuery, <<>>)}
SpecResponses ==
  {NetworkError, Timeout, DataResponse(NotAnArray),
   DataResponse(Array(<<France, NoName>>)),
   DataResponse(Array(<<TextPopulation, Germany>>)),
   DataResponse(Array(<<JsonNull>>)),
   DataResponse(Array(<<NumericRegion>>)),
   DataResponse(Array(<<France, Germany>>)),
   DataResponse(Array(<<India>>))}

\* AggSpec: one caller, a healthy upstream serving any array of valid
\* countries up to MaxLen, every request.
AggRegions == {Undefined, Str(<<>>), Str(s_eu), Str(s_as)}
AggMinPopulations == {Undefined, Num(0), Num(2)}
AggQueries ==
  {Query(r, m, pg, l) : r \in AggRegions, m \in AggMinPopulations,
                        pg \in 1..MaxPage, l \in 1..MaxLimit}
AggNames == {s_fr, s_FR, s_De, s_eu}
AggRequests ==
  {Request("search", q, <<>>) : q \in AggQueries}
    \cup {Request("byName", NoQuery, n) : n \in AggNames}
    \cup {Request("regions", NoQuery, <<>>), Request("languages", NoQuery, <<>>),
          Request("statistics", NoQuery, <<>>)}
AggResponses == {DataResponse(Array(items)) : items \in SeqsUpTo(ValidCountries, MaxLen)}

\* ----------------------------------------------------------------- actions
Init ==
  /\ heap = <<>>
  /\ cacheRef = 0
  /\ cacheExpired = FALSE
  /\ upstreamCalls = 0
  /\ calls = 0
  /\ pc = [p \in Callers |-> "idle"]
  /\ op = [p \in Callers |-> NoRequest]
  /\ phase = [p \in Callers |-> 1]
  /\ cachedData = [p \in Callers |-> 0]
  /\ response = [p \in Callers |-> NoResponse]
  /\ countries = [p \in Callers |-> NoArray]
  /\ stats = [p \in Callers |-> NoStats]
  /\ result = [p \in Callers |-> NoResult]

\* cacheManager.get('countries'): the entry while its ttl runs, else undefined.
CacheGet == IF cacheRef # 0 /\ ~cacheExpired THEN cacheRef ELSE 0

\* if (cachedData)
\* (faulty variant: the cached value is never used)
AlwaysMiss(ref) == FALSE
IsHit(ref) == ref # 0

\* The array a caller holds, as it is now.
Data(p) == IF countries[p].ref # 0 THEN heap[countries[p].ref] ELSE countries[p].arr

\* The ttl of the cache entry runs out (CacheModule.register({ttl: 600})).
Expire ==
  /\ cacheRef # 0
  /\ ~cacheExpired
  /\ cacheExpired' = TRUE
  /\ UNCHANGED <<heap, cacheRef, upstreamCalls, calls, pc, op, phase, cachedData,
                 response, countries, stats, result>>

\* A request arrives: the operation runs up to fetchCountries' first await,
\* the cacheManager.get of line 37.
Call(p, request) ==
  /\ pc[p] = "idle"
  /\ op' = [op EXCEPT ![p] = request]
  /\ phase' = [phase EXCEPT ![p] = 1]
  /\ cachedData' = [cachedData EXCEPT ![p] = CacheGet]
  /\ pc' = [pc EXCEPT ![p] = "cacheGet"]
  /\ UNCHANGED <<heap, cacheRef, cacheExpired, upstreamCalls, response, countries,
                 stats, result>>

\* fetchCountries, lines 39-42: return cachedData.
ReturnCached(p) ==
  /\ pc[p] = "cacheGet"
  /\ IsHit(cachedData[p])
  /\ countries' = [countries EXCEPT ![p] = Shared(cachedData[p])]
  /\ cachedData' = [cachedData EXCEPT ![p] = 0]
  /\ pc' = [pc EXCEPT ![p] = "compute"]
  /\ UNCHANGED <<heap, cacheRef, cacheExpired, upstreamCalls, calls, op, phase,
                 response, stats, result>>

\* fetchCountries, lines 44-51: axios.get is issued.
IssueRequest(p) ==
  /\ pc[p] = "cacheGet"
  /\ ~IsHit(cachedData[p])
  /\ upstreamCalls' = upstreamCalls + 1
  /\ cachedData' = [cachedData EXCEPT ![p] = 0]
  /\ response' = [response EXCEPT ![p] = NoResponse]
  /\ pc' = [pc EXCEPT ![p] = "fetching"]
  /\ UNCHANGED <<heap, cacheRef, cacheExpired, calls, op, phase, countries, stats,
                 result>>

\* Whether lines 46-59 get past the check of the payload.
\* (faulty variant: one valid element is enough)
FetchSucceededIfSomeValid(r) == r.kind = "data" /\ SomeElementValid(r.data)
FetchSucceeded(r) == r.kind = "data" /\ PayloadAccepted(r.data)

\* (faulty variant: the message of the caught error is dropped)
ErrorMessageDropped(r) == "Internal Server Error"
\* error.message of the exception the catch block of line 65 receives.
ErrorMessage(r) ==
  IF r.kind = "data" THEN "Invalid data format from API"
  ELSE IF r.kind = "timeout" THEN "timeout exceeded"
  ELSE "Network Error"

\* The upstream answers with r and fetchCountries goes on at lines 52-64:
\* cacheManager.set stores its own copy of the array under a fresh ttl, the
\* caller keeps the array of the response.
StoreAndReturn(p, r) ==
  /\ pc[p] = "fetching"
  /\ FetchSucceeded(r)
  /\ response' = [response EXCEPT ![p] = r]
  /\ heap' = Append(heap, r.data.items)
  /\ cacheRef' = Len(heap) + 1
  /\ cacheExpired' = FALSE
  /\ countries' = [countries EXCEPT ![p] = Own(r.data.items)]
  /\ pc' = [pc EXCEPT ![p] = "compute"]
  /\ UNCHANGED <<upstreamCalls, calls, op, phase, cachedData, stats, result>>

\* The upstream answers with r (a failure, a timeout, a payload that does
\* not pass) and fetchCountries goes on at lines 58 and 65-68: the
\* operation fails with the exception.
FetchFails(p, r) ==
  /\ pc[p] = "fetching"
  /\ ~FetchSucceeded(r)
  /\ response' = [response EXCEPT ![p] = r]
  /\ result' = [result EXCEPT ![p] = InternalServerError(ErrorMessage(r))]
  /\ stats' = [stats EXCEPT ![p] = NoStats]
  /\ pc' = [pc EXCEPT ![p] = "done"]
  /\ UNCHANGED <<heap, cacheRef, cacheExpired, upstreamCalls, calls, op, phase,
                 cachedData, countries>>

\* The operation ends: its locals go, its result stays until Return.
Finish(p, res) ==
  /\ result' = [result EXCEPT ![p] = res]
  /\ countries' = [countries EXCEPT ![p] = NoArray]
  /\ stats' = [stats EXCEPT ![p] = NoStats]
  /\ pc' = [pc EXCEPT ![p] = "done"]

\* The sort of line 90 on the array the caller holds.
HeapAfterSort(p) ==
  IF SortsInput(op[p].q) /\ countries[p].ref # 0
  THEN [heap EXCEPT ![countries[p].ref] = SortByName(@)]
  ELSE heap

\* getCountries, lines 77-108.
Search(p) ==
  /\ pc[p] = "compute"
  /\ op[p].kind = "search"
  /\ Finish(p, getCountries(Data(p), op[p].q))
  /\ heap' = HeapAfterSort(p)
  /\ UNCHANGED <<cacheRef, cacheExpired, upstreamCalls, calls, op, phase, cachedData,
                 response>>

\* getCountryByName, lines 114-123.
ByName(p) ==
  /\ pc[p] = "compute"
  /\ op[p].kind = "byName"
  /\ Finish(p, getCountryByName(Data(p), op[p].name))
  /\ UNCHANGED <<heap, cacheRef, cacheExpired, upstreamCalls, calls, op, phase,
                 cachedData, response>>

\* getRegions, lines 129-143.
Regions(p) ==
  /\ pc[p] = "compute"
  /\ op[p].kind = "regions"
  /\ Finish(p, getRegions(Data(p)))
  /\ UNCHANGED <<heap, cacheRef, cacheExpired, upstreamCalls, calls, op, phase,
                 cachedData, response>>

\* getLanguages, lines 149-168, called as an operation.
Languages(p) ==
  /\ pc[p] = "compute"
  /\ op[p].kind = "languages"
  /\ Finish(p, getLanguages(Data(p)))
  /\ UNCHANGED <<heap, cacheRef, cacheExpired, upstreamCalls, calls, op, phase,
                 cachedData, response>>

\* getStatistics, lines 174-181: the two reduces (a TypeError on an empty
\* array), then getMostSpokenLanguage -> getLanguages -> fetchCountries up
\* to its cacheManager.get.
StatisticsFirst(p) ==
  /\ pc[p] = "compute"
  /\ op[p].kind = "statistics"
  /\ phase[p] = 1
  /\ IF Data(p) = <<>>
     THEN /\ Finish(p, TypeError)
          /\ UNCHANGED <<phase, cachedData>>
     ELSE /\ stats' = [stats EXCEPT ![p] =
                [totalCountries |-> Len(Data(p)),
                 largest |-> largestCountry(Data(p)).name.s,
                 smallest |-> smallestCountry(Data(p)).name.s]]
          /\ countries' = [countries EXCEPT ![p] = NoArray]
          /\ phase' = [phase EXCEPT ![p] = 2]
          /\ cachedData' = [cachedData EXCEPT ![p] = CacheGet]
          /\ pc' = [pc EXCEPT ![p] = "cacheGet"]
          /\ UNCHANGED result
  /\ UNCHANGED <<heap, cacheRef, cacheExpired, upstreamCalls, calls, op, response>>

\* getMostSpokenLanguage, lines 193-197, and getStatistics, lines 184-189.
StatisticsSecond(p) ==
  /\ pc[p] = "compute"
  /\ op[p].kind = "statistics"
  /\ phase[p] = 2
  /\ LET languages == LanguageDetails(Data(p))
     IN IF languages = <<>>
        THEN Finish(p, TypeError)
        ELSE Finish(p, [status |-> "ok",
                        totalCountries |-> stats[p].totalCountries,
                        largestCountryByArea |-> stats[p].largest,
                        smallestCountryByPopulation |-> stats[p].smallest,
                        mostSpokenLanguage |-> mostSpokenLanguage(languages)])
  /\ UNCHANGED <<heap, cacheRef, cacheExpired, upstreamCalls, calls, op, phase,
                 cachedData, response>>

\* A request of a behaviour that serves MaxCalls requests at most.
CountedCall(p, request) ==
  /\ calls < MaxCalls
  /\ calls' = calls + 1
  /\ Call(p, request)

\* A request of a behaviour that serves any number of requests.
RepeatedCall(p, request) ==
  /\ Call(p, request)
  /\ UNCHANGED calls

\* The response (or the exception) is delivered; the caller may ask again.
Return(p) ==
  /\ pc[p] = "done"
  /\ pc' = [pc EXCEPT ![p] = "idle"]
  /\ op' = [op EXCEPT ![p] = NoRequest]
  /\ phase' = [phase EXCEPT ![p] = 1]
  /\ response' = [response EXCEPT ![p] = NoResponse]
  /\ result' = [result EXCEPT ![p] = NoResult]
  /\ UNCHANGED <<heap, cacheRef, cacheExpired, upstreamCalls, calls, cachedData,
                 countries, stats>>

Next ==
  \/ Expire
  \/ \E p \in Callers :
       \/ \E request \in SpecRequests : CountedCall(p, request)
       \/ ReturnCached(p)
       \/ IssueRequest(p)
       \/ \E r \in SpecResponses : StoreAndReturn(p, r)
       \/ \E r \in SpecResponses : FetchFails(p, r)
       \/ Search(p)
       \/ ByName(p)
       \/ Regions(p)
       \/ Languages(p)
       \/ StatisticsFirst(p)
       \/ StatisticsSecond(p)
       \/ Return(p)

Spec == Init /\ [][Next]_vars

\* One caller asking again and again, within one ttl, the upstream healthy.
AggNext ==
  \/ \E request \in AggRequests : RepeatedCall(1, request)
  \/ ReturnCached(1)
  \/ IssueRequest(1)
  \/ \E r \in AggResponses : StoreAndReturn(1, r)
  \/ Search(1)
  \/ ByName(1)
  \/ Regions(1)
  \/ Languages(1)
  \/ StatisticsFirst(1)
  \/ StatisticsSecond(1)
  \/ Return(1)

AggSpec == Init /\ [][AggNext]_vars

\* ------------------------------------------------------------ properties
CacheFresh == cacheRef # 0 /\ ~cacheExpired
Fetching == {p \in Callers : pc[p] = "fetching"}

\* C1: callers that find no snapshot in the cache share one upstream fetch:
\* at no point are two upstream fetches in flight.
C1_SingleFlight == Cardinality(Fetching) <= 1

\* C2: a cacheManager.get made while the cache holds a non-expired snapshot
\* resolves to that snapshot, and fetchCountries then returns it without an
\* upstream call.
C2_FreshSnapshotServed ==
  [][\A p \in Callers :
       /\ (pc[p] # "cacheGet" /\ pc'[p] = "cacheGet" /\ CacheFresh)
            => (cachedData'[p] = cacheRef /\ upstreamCalls' = upstreamCalls)
       /\ (pc[p] = "cacheGet" /\ cachedData[p] # 0 /\ pc'[p] # "cacheGet")
            => /\ pc'[p] = "compute"
               /\ countries'[p] = Shared(cachedData[p])
               /\ upstreamCalls' = upstreamCalls]_vars

C2_Witness ==
  \E p \in Callers :
    /\ pc[p] = "compute"
    /\ CacheFresh
    /\ countries[p] = Shared(cacheRef)
    /\ upstreamCalls = 1
    /\ calls = 2

\* The upstream's answer is a failure: no answer, or a body that is not an
\* array of objects with a string name, a string region and a numeric
\* population.
UpstreamFailed(r) ==
  \/ r.kind \in {"networkError", "timeout"}
  \/ ~r.data.isArray
  \/ \E i \in DOMAIN r.data.items :
       LET e == r.data.items[i]
       IN \/ e.t = "null"
          \/ e.name.t # "string"
          \/ e.region.t # "string"
          \/ e.population.t # "number"

\* C3: when the upstream fetch fails the caller gets an error and the cache
\* slot stays as it was; an expired entry is never handed to a caller.
C3_FailureLeavesCache ==
  [][\A p \in Callers :
       /\ (pc[p] = "fetching" /\ pc'[p] # "fetching" /\ UpstreamFailed(response'[p]))
            => /\ pc'[p] = "done"
               /\ result'[p].status = "error"
               /\ heap' = heap
               /\ cacheRef' = cacheRef
               /\ cacheExpired' = cacheExpired
       /\ (pc[p] # "cacheGet" /\ pc'[p] = "cacheGet" /\ cacheExpired)
            => cachedData'[p] = 0]_vars

C3_Witness ==
  \E p \in Callers :
    /\ pc[p] = "done"
    /\ result[p].status = "error"
    /\ response[p].kind = "timeout"
    /\ cacheRef # 0
    /\ cacheExpired

WellFormed(e) ==
  /\ e.t = "object"
  /\ e.name.t = "string"
  /\ e.region.t = "string"
  /\ e.population.t = "number"

Count(seq, x) == Cardinality({i \in DOMAIN seq : seq[i] = x})
SameElements(a, b) ==
  /\ Len(a) = Len(b)
  /\ \A i \in DOMAIN a : Count(a, a[i]) = Count(b, a[i])

\* C4: the cached snapshot always is a whole upstream array every element
\* of which has a string name, a string region and a numeric population.
C4_CacheHoldsValidSnapshot ==
  \A i \in DOMAIN heap :
    /\ \A j \in DOMAIN heap[i] : WellFormed(heap[i][j])
    /\ \E r \in SpecResponses :
         /\ r.kind = "data"
         /\ r.data.isArray
         /\ \A j \in DOMAIN r.data.items : WellFormed(r.data.items[j])
         /\ SameElements(heap[i], r.data.items)

C4_Witness ==
  /\ cacheRef # 0
  /\ Len(heap[cacheRef]) = 2
  /\ \E p \in Callers :
       /\ pc[p] = "done"
       /\ response[p] = DataResponse(Array(<<TextPopulation, Germany>>))

\* C5: the cached snapshot is never changed in place: while the cache entry
\* is the same object its elements stay in the same order.
C5_SnapshotNeverMutated ==
  [][(cacheRef # 0 /\ cacheRef' = cacheRef) => heap'[cacheRef] = heap[cacheRef]]_vars

\* Equality of strings up to the case of their letters.
UpperCase(ch) == IF ch \in 97..122 THEN ch - 32 ELSE ch
EqualIgnoringCase(a, b) ==
  /\ Len(a) = Len(b)
  /\ \A i \in DOMAIN a : UpperCase(a[i]) = UpperCase(b[i])

\* A filter is given when the parameter is present (an empty region string
\* is an absent region).
RegionGiven(q) == q.region.t = "string" /\ q.region.s # <<>>
MinPopulationGiven(q) == q.minPopulation.t = "number"

Matches(c, q) ==
  /\ RegionGiven(q) => EqualIgnoringCase(c.region.s, q.region.s)
  /\ MinPopulationGiven(q) => c.population.n >= q.minPopulation.n

Matching(snap, q) == {j \in DOMAIN snap : Matches(snap[j], q)}

SortedByCommonName(data) ==
  \A i \in DOMAIN data : \A j \in DOMAIN data :
    i < j => LocaleCompare(data[i].commonName, data[j].commonName) <= 0

\* C6: search returns data sorted ascending by common name, holding only
\* countries that match the region (ignoring case) and the minimum
\* population, and total counts the matching countries of the snapshot,
\* whatever page and limit are.
C6_SearchFiltersAndSorts ==
  [][\A p \in Callers :
       (pc[p] = "compute" /\ op[p].kind = "search" /\ pc'[p] = "done")
         => LET snap == Data(p)
                q == op[p].q
                res == result'[p]
            IN /\ res.status = "ok"
               /\ SortedByCommonName(res.data)
               /\ \A i \in DOMAIN res.data :
                    \E j \in Matching(snap, q) : res.data[i] = formatCountryData(snap[j])
               /\ res.total = Cardinality(Matching(snap, q))
               /\ res.page = q.page
               /\ res.limit = q.limit]_vars

C6_Witness ==
  \E p \in Callers :
    /\ pc[p] = "done"
    /\ op[p].kind = "search"
    /\ op[p].q.region = Str(s_eu)
    /\ op[p].q.minPopulation = Num(2)
    /\ result[p].status = "ok"
    /\ result[p].total = 2
    /\ Len(result[p].data) = 2
    /\ result[p].data[1].commonName = s_De
    /\ result[p].data[2].commonName = s_fr

\* The data of pages first..last of the search q, one after the other.
RECURSIVE ConcatPages(_, _, _, _)
ConcatPages(snap, q, first, last) ==
  IF first > last THEN <<>>
  ELSE getCountries(snap, [q EXCEPT !.page = first]).data
         \o ConcatPages(snap, q, first + 1, last)

CeilDiv(a, b) == (a + b - 1) \div b

\* data is page q.page of the list that pages 1..ceil(total/limit) make up,
\* and that list is the filtered, sorted list.
PagesCoverFilteredList(snap, q, data) ==
  LET pages == CeilDiv(getCountries(snap, q).total, q.limit)
      expected == {formatCountryData(snap[j]) : j \in Matching(snap, q)}
      start == (q.page - 1) * q.limit
  IN /\ \A all \in {ConcatPages(snap, q, 1, pages)} :
          /\ Len(all) = Cardinality(Matching(snap, q))
          /\ all = ConcatPages(SortByName(snap), q, 1, pages)
          /\ SortedByCommonName(all)
          /\ \A i \in DOMAIN all : all[i] \in expected
          /\ \A f \in expected :
               Count(all, f) =
                 Cardinality({j \in Matching(snap, q) : formatCountryData(snap[j]) = f})
          /\ Len(data) = IF Len(all) >= start + q.limit THEN q.limit
                         ELSE IF Len(all) > start THEN Len(all) - start
                         ELSE 0
          /\ data = [i \in 1..Len(data) |-> all[start + i]]
     /\ \A k \in (pages + 1)..(MaxPage + 1) :
          getCountries(snap, [q EXCEPT !.page = k]).data = <<>>

\* C7: for the snapshot and the filters of a search, the pages
\* 1..ceil(total/limit) one after the other are the whole filtered, sorted
\* list, nothing twice and nothing left out (also once the snapshot itself
\* has been sorted), later pages are empty, and the page served is its page
\* of that list.
C7_PaginationConsistent ==
  [][\A p \in Callers :
       (pc[p] = "compute" /\ op[p].kind = "search" /\ pc'[p] = "done")
         => PagesCoverFilteredList(Data(p), op[p].q, result'[p].data)]_vars

C7_Witness ==
  \E p \in Callers :
    /\ pc[p] = "done"
    /\ op[p].kind = "search"
    /\ op[p].q.page = 2
    /\ op[p].q.limit = 1
    /\ result[p].status = "ok"
    /\ result[p].total = 2
    /\ Len(result[p].data) = 1

FirstMatch(S) == CHOOSE j \in S : \A k \in S : j <= k

\* C8: byName returns the formatted first country of the snapshot whose
\* common name equals the name up to case, the same for every spelling of
\* the name, and fails with NotFound exactly when there is none; the cache
\* stays as it was.
C8_ByNameIgnoresCase ==
  [][\A p \in Callers :
       (pc[p] = "compute" /\ op[p].kind = "byName" /\ pc'[p] = "done")
         => LET snap == Data(p)
                name == op[p].name
                res == result'[p]
                found == {j \in DOMAIN snap : EqualIgnoringCase(snap[j].name.s, name)}
            IN /\ found = {} <=> (res.status = "error" /\ res.error = "NotFoundException")
               /\ found # {} =>
                    /\ res.status = "ok"
                    /\ res.country = formatCountryData(snap[FirstMatch(found)])
               /\ \A other \in AggNames :
                    EqualIgnoringCase(other, name) => getCountryByName(snap, other) = res
               /\ heap' = heap /\ cacheRef' = cacheRef /\ cacheExpired' = cacheExpired]_vars

C8_Witness ==
  \E p \in Callers :
    /\ pc[p] = "done"
    /\ op[p].kind = "byName"
    /\ op[p].name = s_FR
    /\ result[p].status = "ok"
    /\ result[p].country.commonName = s_fr

RECURSIVE SumPopulation(_)
SumPopulation(cs) ==
  IF cs = <<>> THEN 0 ELSE Head(cs).population.n + SumPopulation(Tail(cs))

Names(cs) == [i \in DOMAIN cs |-> cs[i].name.s]

\* C9: regions() lists under each region the countries of that region, each
\* once, with the sum of their populations, and every country of the
\* snapshot under exactly one region.
C9_RegionsPartitionSnapshot ==
  [][\A p \in Callers :
       (pc[p] = "compute" /\ op[p].kind = "regions" /\ pc'[p] = "done")
         => LET snap == Data(p)
                regions == result'[p].regions
                InRegion(key) == SelectSeq(snap, LAMBDA c : c.region.s = key)
            IN /\ result'[p].status = "ok"
               /\ \A i \in DOMAIN regions : \A j \in DOMAIN regions :
                    regions[i].key = regions[j].key => i = j
               /\ \A i \in DOMAIN regions :
                    /\ regions[i].countries = Names(InRegion(regions[i].key))
                    /\ regions[i].countries # <<>>
                    /\ regions[i].total = SumPopulation(InRegion(regions[i].key))
               /\ \A j \in DOMAIN snap :
                    \E i \in DOMAIN regions : regions[i].key = snap[j].region.s]_vars

C9_Witness ==
  \E p \in Callers :
    /\ pc[p] = "done"
    /\ op[p].kind = "regions"
    /\ result[p].status = "ok"
    /\ Len(result[p].regions) = 1
    /\ result[p].regions[1].countries = <<s_in, s_FR>>
    /\ result[p].regions[1].total = 2

\* C10: languages() gives each language the sum of the populations of the
\* countries whose language mapping holds that name, every such country
\* counted once.
C10_SpeakersCountEachCountryOnce ==
  [][\A p \in Callers :
       (pc[p] = "compute" /\ op[p].kind = "languages" /\ pc'[p] = "done")
         => LET snap == Data(p)
                languages == result'[p].languages
                Speaks(c, key) ==
                  c.hasLanguages /\ \E k \in DOMAIN c.languages : c.languages[k].name = key
                Speaking(key) == SelectSeq(snap, LAMBDA c : Speaks(c, key))
            IN \A i \in DOMAIN languages :
                 languages[i].total = SumPopulation(Speaking(languages[i].key))]_vars

\* The step on which getStatistics returns its object (lines 184-189).
StatisticsReturns(p) ==
  /\ pc[p] = "compute"
  /\ op[p].kind = "statistics"
  /\ phase[p] = 2
  /\ pc'[p] = "done"
  /\ result'[p].status = "ok"

\* The area a country counts with: an absent area counts as none.
AreaOrZero(c) == IF c.area.t = "number" THEN c.area.n ELSE 0

FirstLargestByArea(snap) ==
  FirstMatch({j \in DOMAIN snap :
                \A k \in DOMAIN snap : AreaOrZero(snap[j]) >= AreaOrZero(snap[k])})

\* C11: for a non-empty snapshot, statistics() reports as
\* largestCountryByArea the first country of the snapshot whose area is at
\* least the area of every other one, a country without an area never
\* ahead of one with a positive area.
C11_LargestByAreaFirstOfMaximum ==
  [][\A p \in Callers :
       StatisticsReturns(p)
         => LET snap == Data(p)
            IN result'[p].largestCountryByArea = snap[FirstLargestByArea(snap)].name.s]_vars

\* The step on which getStatistics has run its reduces of lines 175-180.
StatisticsReduces(p) ==
  /\ pc[p] = "compute"
  /\ op[p].kind = "statistics"
  /\ phase[p] = 1
  /\ Data(p) # <<>>

LastMatch(S) == CHOOSE j \in S : \A k \in S : j >= k

Smallest(snap) ==
  {j \in DOMAIN snap :
     \A k \in DOMAIN snap : snap[j].population.n <= snap[k].population.n}

MostSpoken(languages) ==
  {i \in DOMAIN languages :
     \A k \in DOMAIN languages : languages[i].total >= languages[k].total}

FetchFailed(p) ==
  /\ pc[p] = "done"
  /\ response[p] # NoResponse
  /\ ~FetchSucceeded(response[p])

InvalidPayload(r) == r.kind = "data"

StatisticsOf(snap) ==
  [status |-> "ok",
   totalCountries |-> Len(snap),
   largestCountryByArea |-> largestCountry(snap).name.s,
   smallestCountryByPopulation |-> smallestCountry(snap).name.s,
   mostSpokenLanguage |-> mostSpokenLanguage(LanguageDetails(snap))]

\* The snapshots the upstream of Spec can give, as fetched or as sorted by
\* a search.
Fetched == {r.data.items : r \in {x \in SpecResponses : FetchSucceeded(x)}}
Snapshots ==
  {snap \in Fetched \cup {SortByName(d) : d \in Fetched} : LanguageDetails(snap) # <<>>}

\* C15: every result of statistics() is the statistics of one snapshot, and
\* a call of statistics() that has fetched does not fetch again.
C15_StatisticsFromOneSnapshot ==
  [][\A p \in Callers :
       /\ StatisticsReturns(p) => \E snap \in Snapshots : result'[p] = StatisticsOf(snap)
       /\ (/\ op[p].kind = "statistics"
           /\ phase[p] = 2
           /\ pc[p] = "cacheGet"
           /\ pc'[p] = "fetching") => response[p] = NoResponse]_vars

====
